---- MODULE Spec2Model ----
(***************************************************************************)
(* Model of vtkSlicerMarkupsToModelCurveGeneration                          *)
(* (src/MarkupsToModel/Logic/vtkSlicerMarkupsToModelCurveGeneration.cxx).   *)
(*                                                                          *)
(* The class is a collection of static functions.  The state is the set of  *)
(* objects a caller owns and passes in: the control points, the output      *)
(* poly data and the point parameter array.  One action is one call.        *)
(*                                                                          *)
(* Coordinates and parameters are exact rationals <<numerator,denominator>> *)
(* (the code uses double; rounding is not modelled).  Containers keep the   *)
(* 0-based indices of the code through GetPoint/SetPoint/GetValue.          *)
(***************************************************************************)
EXTENDS Integers, Sequences, FiniteSets, TLC

VARIABLES
  controlPoints,        \* vtkPoints* the caller passes in
  outputTubePolyData,   \* vtkPolyData* the caller passes in
  pointParameters,      \* vtkDoubleArray* the caller passes to a parameterizer
  curvePoints,          \* points last handed to the tube/line mesh builder
  call,                 \* the call that was made and its arguments
  warnings              \* vtkGenericWarningMacro messages of the call

vars == <<controlPoints, outputTubePolyData, pointParameters, curvePoints, call, warnings>>

----------------------------------------------------------------------------
(* Bounds of the model *)

MaxControlPoints == 3
MaxParameterPoints == 4
MaxSegments == 2

----------------------------------------------------------------------------
(* Exact rational arithmetic standing for double *)

Abs(n) == IF n < 0 THEN -n ELSE n

RECURSIVE GCD(_, _)
GCD(a, b) == IF b = 0 THEN a ELSE GCD(b, a % b)

Rat(n, d) ==
  LET g == GCD(Abs(n), Abs(d))
      s == IF d < 0 THEN -1 ELSE 1
  IN  <<(s * n) \div g, (s * d) \div g>>

RInt(n) == <<n, 1>>
RZero == RInt(0)
ROne == RInt(1)
RHalf == Rat(1, 2)
RAdd(a, b) == Rat(a[1] * b[2] + b[1] * a[2], a[2] * b[2])
RSub(a, b) == Rat(a[1] * b[2] - b[1] * a[2], a[2] * b[2])
RMul(a, b) == Rat(a[1] * b[1], a[2] * b[2])
RDiv(a, b) == Rat(a[1] * b[2], a[2] * b[1])
RLess(a, b) == a[1] * b[2] < b[1] * a[2]

RECURSIVE RPow(_, _)
RPow(a, c) == IF c <= 0 THEN ROne ELSE RMul(a, RPow(a, c - 1))

----------------------------------------------------------------------------
(* vtkPoints / vtkDoubleArray access, 0-based as in the code *)

\* a sequence with every element evaluated and stored
Stored(seq) == seq \o <<>>

GetNumberOfPoints(points) == Len(points)
GetPoint(points, i) == points[i + 1]

\* what a write past the end of a vtkPoints buffer leaves behind (SetPoint does no range
\* check): it shows as one more entry, which is no point
OutOfRangeWrite == <<"write out of range">>

SetPoint(points, i, p) ==
  IF i >= 0 /\ i < Len(points)
  THEN [points EXCEPT ![i + 1] = p]
  ELSE Append(points, OutOfRangeWrite)

GetValue(array, i) == array[i + 1]

\* a slot of a vtkPoints buffer after SetNumberOfPoints and before any SetPoint
Unwritten == <<0, 0>>
UnwrittenPoint == <<Unwritten, Unwritten, Unwritten>>
SetNumberOfPoints(n) == Stored([k \in 1..n |-> UnwrittenPoint])

PointOf(x, y, z) == <<RInt(x), RInt(y), RInt(z)>>

----------------------------------------------------------------------------
(* Poly data.  points: the point list; lines: the cells, each a sequence   *)
(* of point ids.  The tube filter and the sphere source are external: a    *)
(* tube is identified by the polyline it was extruded from, its radius and  *)
(* its number of sides; a sphere by its center, radius and resolution.      *)

EmptyPolyData == [kind |-> "empty", points |-> <<>>, lines |-> <<>>, radius |-> 0, sides |-> 0]

LinePolyData(points) ==
  [kind |-> "line", points |-> points,
   lines |-> << [k \in 1..Len(points) |-> k - 1] >>, radius |-> 0, sides |-> 0]

TubeFilter(linePolyData, tubeRadius, tubeNumberOfSides) ==
  [kind |-> "tube", points |-> linePolyData.points, lines |-> linePolyData.lines,
   radius |-> tubeRadius, sides |-> tubeNumberOfSides]

SphereSource(center, sphereRadius, sphereNumberOfSides) ==
  [kind |-> "sphere", points |-> <<center>>, lines |-> <<>>,
   radius |-> sphereRadius, sides |-> sphereNumberOfSides]

\* a null pointer argument, for each of the three kinds of object
NullPoints == << <<>> >>
NullArray == << <<>> >>
NullPolyData == [kind |-> "null", points |-> <<>>, lines |-> <<>>, radius |-> 0, sides |-> 0]

\* what a call leaves behind: the content of the output poly data, the points
\* handed to the mesh builder (none: <<>>), and the warnings emitted
Outcome(polyData, curve, warned) == [polyData |-> polyData, curvePoints |-> curve, warnings |-> warned]

GetTubePolyDataFromPoints_NullClears(pointsToConnect, outputTube, tubeRadius, tubeNumberOfSides) ==
  IF pointsToConnect = NullPoints
  THEN Outcome(EmptyPolyData, <<>>, <<"Points to connect is null. No model generated.">>)
  ELSE IF outputTube = NullPolyData
  THEN Outcome(outputTube, <<>>, <<"Output tube poly data is null. No model generated.">>)
  ELSE LET linePolyData == LinePolyData(pointsToConnect)
       IN  IF tubeRadius > 0
           THEN Outcome(TubeFilter(linePolyData, tubeRadius, tubeNumberOfSides), pointsToConnect, <<>>)
           ELSE Outcome(linePolyData, pointsToConnect, <<>>)

GetTubePolyDataFromPoints(pointsToConnect, outputTube, tubeRadius, tubeNumberOfSides) ==
  IF pointsToConnect = NullPoints
  THEN Outcome(outputTube, <<>>, <<"Points to connect is null. No model generated.">>)
  ELSE IF outputTube = NullPolyData
  THEN Outcome(outputTube, <<>>, <<"Output tube poly data is null. No model generated.">>)
  ELSE LET linePolyData == LinePolyData(pointsToConnect)
       IN  IF tubeRadius > 0
           THEN Outcome(TubeFilter(linePolyData, tubeRadius, tubeNumberOfSides), pointsToConnect, <<>>)
           ELSE Outcome(linePolyData, pointsToConnect, <<>>)

TUBE_NUMBER_OF_SIDES_DEFAULT == 8

GenerateSphereModel_DefaultSides(point, outputSphere, sphereRadius, sphereNumberOfSides) ==
  IF point = NullPoints
  THEN Outcome(outputSphere, <<>>, <<"Input point for sphere generation is null. No model generated.">>)
  ELSE IF outputSphere = NullPolyData
  THEN Outcome(outputSphere, <<>>, <<"Output sphere poly data is null. No model generated.">>)
  ELSE Outcome(SphereSource(point[1], sphereRadius, TUBE_NUMBER_OF_SIDES_DEFAULT), <<>>, <<>>)

\* point is null: NullPoints; otherwise a sequence holding the one point
GenerateSphereModel(point, outputSphere, sphereRadius, sphereNumberOfSides) ==
  IF point = NullPoints
  THEN Outcome(outputSphere, <<>>, <<"Input point for sphere generation is null. No model generated.">>)
  ELSE IF outputSphere = NullPolyData
  THEN Outcome(outputSphere, <<>>, <<"Output sphere poly data is null. No model generated.">>)
  ELSE Outcome(SphereSource(point[1], sphereRadius, sphereNumberOfSides), <<>>, <<>>)

----------------------------------------------------------------------------
(* Dense sampling helpers *)

NoControlPoints_Clears(outputTubePolyData_) == Outcome(EmptyPolyData, <<>>, <<>>)

\* numberControlPoints <= 0: "no way to make a model from 0 points", plain return
NoControlPoints(outputTubePolyData_) == Outcome(outputTubePolyData_, <<>>, <<>>)

AllocateCurvePoints_OneSeamSlot(controlPts, tubeSegmentsBetweenControlPoints, tubeLoop) ==
  LET numberControlPoints == GetNumberOfPoints(controlPts)
  IN  IF tubeLoop
      THEN SetNumberOfPoints(numberControlPoints * tubeSegmentsBetweenControlPoints)
      ELSE SetNumberOfPoints((numberControlPoints - 1) * tubeSegmentsBetweenControlPoints + 1)

AllocateCurvePoints(controlPts, tubeSegmentsBetweenControlPoints, tubeLoop) ==
  LET numberControlPoints == GetNumberOfPoints(controlPts)
  IN  IF tubeLoop
      THEN SetNumberOfPoints(numberControlPoints * tubeSegmentsBetweenControlPoints + 2)
      ELSE SetNumberOfPoints((numberControlPoints - 1) * tubeSegmentsBetweenControlPoints + 1)

\* 0.5 * a + 0.5 * b on one coordinate
Midpoint(a, b) == RAdd(RMul(RHalf, a), RMul(RHalf, b))

CloseLoop_FirstOnly(outputPoints) ==
  LET point0 == GetPoint(outputPoints, 0)
      point1 == GetPoint(outputPoints, 1)
      finalPoint == Stored([d \in 1..3 |-> Midpoint(point0[d], point1[d])])
  IN  SetPoint(outputPoints, 0, finalPoint)

CloseLoop(outputPoints) ==
  LET point0 == GetPoint(outputPoints, 0)
      point1 == GetPoint(outputPoints, 1)
      finalPoint == Stored([d \in 1..3 |-> Midpoint(point0[d], point1[d])])
      finalIndex == GetNumberOfPoints(outputPoints) - 1
  IN  SetPoint(SetPoint(outputPoints, 0, finalPoint), finalIndex, finalPoint)

LinearBlend_Swapped(current, next, i, n) ==
  LET interpolationParam == Rat(i, n)
  IN  Stored([d \in 1..3 |-> RAdd(RMul(interpolationParam, current[d]),
                                  RMul(RSub(ROne, interpolationParam), next[d]))])

\* (1 - i/n) * current + (i/n) * next, per coordinate
LinearBlend(current, next, i, n) ==
  LET interpolationParam == Rat(i, n)
  IN  Stored([d \in 1..3 |-> RAdd(RMul(RSub(ROne, interpolationParam), current[d]),
                                  RMul(interpolationParam, next[d]))])

\* the inner loop of GeneratePiecewiseLinearCurveModel, from sub-step i on
RECURSIVE LinearSubSteps(_, _, _, _, _, _)
LinearSubSteps(controlPointCurrent, controlPointNext, segments, controlPointIndex, i, curve) ==
  IF i >= segments
  THEN curve
  ELSE LET curvePoint == LinearBlend(controlPointCurrent, controlPointNext, i, segments)
           curveIndex == controlPointIndex * segments + i
       IN  LinearSubSteps(controlPointCurrent, controlPointNext, segments, controlPointIndex, i + 1,
                          SetPoint(curve, curveIndex, curvePoint))

\* the segment loop of GeneratePiecewiseLinearCurveModel, from controlPointIndex on
RECURSIVE LinearSegments(_, _, _, _, _, _)
LinearSegments(controlPts, segments, numberSegmentsToInterpolate, controlPointIndex, controlPointIndexNext, curve) ==
  IF controlPointIndex >= numberSegmentsToInterpolate
  THEN curve
  ELSE LET next == IF controlPointIndexNext >= GetNumberOfPoints(controlPts) THEN 0 ELSE controlPointIndexNext
           controlPointCurrent == GetPoint(controlPts, controlPointIndex)
           controlPointNext == GetPoint(controlPts, next)
           written == LinearSubSteps(controlPointCurrent, controlPointNext, segments, controlPointIndex, 0, curve)
       IN  LinearSegments(controlPts, segments, numberSegmentsToInterpolate, controlPointIndex + 1, next + 1, written)

FinishCurve_LastControlPoint(controlPts, sampled, outputTubePolyData_, tubeRadius, tubeNumberOfSides, segments, tubeLoop) ==
  LET numberControlPoints == GetNumberOfPoints(controlPts)
      numberSegmentsToInterpolate == IF tubeLoop THEN numberControlPoints ELSE numberControlPoints - 1
      finalPoint == GetPoint(controlPts, numberControlPoints - 1)
      finalIndex == segments * numberSegmentsToInterpolate
      withFinal == SetPoint(sampled, finalIndex, finalPoint)
      closed == IF tubeLoop THEN CloseLoop(withFinal) ELSE withFinal
  IN  GetTubePolyDataFromPoints(closed, outputTubePolyData_, tubeRadius, tubeNumberOfSides)

\* the part after the segment loop, shared verbatim by the three interpolating samplers:
\* the final point, CloseLoop when looped, and the mesh
FinishCurve(controlPts, sampled, outputTubePolyData_, tubeRadius, tubeNumberOfSides, segments, tubeLoop) ==
  LET numberControlPoints == GetNumberOfPoints(controlPts)
      numberSegmentsToInterpolate == IF tubeLoop THEN numberControlPoints ELSE numberControlPoints - 1
      controlPointIndex == numberSegmentsToInterpolate % numberControlPoints
      finalPoint == GetPoint(controlPts, controlPointIndex)
      finalIndex == segments * numberSegmentsToInterpolate
      withFinal == SetPoint(sampled, finalIndex, finalPoint)
      closed == IF tubeLoop THEN CloseLoop(withFinal) ELSE withFinal
  IN  GetTubePolyDataFromPoints(closed, outputTubePolyData_, tubeRadius, tubeNumberOfSides)

GeneratePiecewiseLinearCurveModel(controlPts, outputTubePolyData_, tubeRadius, tubeNumberOfSides, segments, tubeLoop) ==
  IF controlPts = NullPoints
  THEN Outcome(outputTubePolyData_, <<>>, <<"Control points are null. No model generated.">>)
  ELSE IF outputTubePolyData_ = NullPolyData
  THEN Outcome(outputTubePolyData_, <<>>, <<"Output tube poly data is null. No model generated.">>)
  ELSE LET numberControlPoints == GetNumberOfPoints(controlPts)
       IN  IF numberControlPoints <= 0
           THEN NoControlPoints(outputTubePolyData_)
           ELSE IF numberControlPoints = 1
           THEN GenerateSphereModel(<<GetPoint(controlPts, 0)>>, outputTubePolyData_, tubeRadius, tubeNumberOfSides)
           ELSE LET allocated == AllocateCurvePoints(controlPts, segments, tubeLoop)
                    numberSegmentsToInterpolate == IF tubeLoop THEN numberControlPoints ELSE numberControlPoints - 1
                    sampled == LinearSegments(controlPts, segments, numberSegmentsToInterpolate, 0, 1, allocated)
                IN  FinishCurve(controlPts, sampled, outputTubePolyData_, tubeRadius, tubeNumberOfSides, segments, tubeLoop)

TUBE_LOOP_DEFAULT == FALSE

TwoControlPoints_DefaultLoop(controlPts, outputTubePolyData_, tubeRadius, tubeNumberOfSides, segments, tubeLoop) ==
  GeneratePiecewiseLinearCurveModel(controlPts, outputTubePolyData_, tubeRadius, tubeNumberOfSides, segments, TUBE_LOOP_DEFAULT)

\* numberControlPoints == 2 in the spline and polynomial samplers: the piecewise linear curve
TwoControlPoints(controlPts, outputTubePolyData_, tubeRadius, tubeNumberOfSides, segments, tubeLoop) ==
  GeneratePiecewiseLinearCurveModel(controlPts, outputTubePolyData_, tubeRadius, tubeNumberOfSides, segments, tubeLoop)

----------------------------------------------------------------------------
(* Spline samplers.  vtkCardinalSpline and vtkKochanekSpline are external.  *)
(* Evaluate at an integer parameter returns that control point; anywhere    *)
(* else the value is the library's: the chord point displaced by            *)
(* `deviation` on every axis, with `deviation` any of SplineDeviations.     *)

SplineDeviations == {RZero, ROne}

SplineEvaluate(controlPts, closed, controlPointIndex, i, segments, deviation) ==
  LET numberControlPoints == GetNumberOfPoints(controlPts)
      current == GetPoint(controlPts, controlPointIndex % numberControlPoints)
      next == GetPoint(controlPts, (controlPointIndex + 1) % numberControlPoints)
      chord == LinearBlend(current, next, i, segments)
  IN  IF i = 0 THEN current ELSE Stored([d \in 1..3 |-> RAdd(chord[d], deviation)])

\* the inner loop of the spline samplers, from sub-step i on
RECURSIVE SplineSubSteps(_, _, _, _, _, _, _)
SplineSubSteps(controlPts, closed, segments, controlPointIndex, i, deviation, curve) ==
  IF i >= segments
  THEN curve
  ELSE LET curvePoint == SplineEvaluate(controlPts, closed, controlPointIndex, i, segments, deviation)
           curveIndex == controlPointIndex * segments + i
       IN  SplineSubSteps(controlPts, closed, segments, controlPointIndex, i + 1, deviation,
                          SetPoint(curve, curveIndex, curvePoint))

\* the segment loop of GenerateCardinalSplineCurveModel / GenerateKochanekSplineCurveModel
RECURSIVE SplineSegments(_, _, _, _, _, _, _)
SplineSegments(controlPts, closed, segments, numberSegmentsToInterpolate, controlPointIndex, deviation, curve) ==
  IF controlPointIndex >= numberSegmentsToInterpolate
  THEN curve
  ELSE LET written == SplineSubSteps(controlPts, closed, segments, controlPointIndex, 0, deviation, curve)
       IN  SplineSegments(controlPts, closed, segments, numberSegmentsToInterpolate, controlPointIndex + 1, deviation, written)

GenerateCardinalSplineCurveModel(controlPts, outputTubePolyData_, tubeRadius, tubeNumberOfSides, segments, tubeLoop, deviation) ==
  IF controlPts = NullPoints
  THEN Outcome(outputTubePolyData_, <<>>, <<"Control points are null. No model generated.">>)
  ELSE IF outputTubePolyData_ = NullPolyData
  THEN Outcome(outputTubePolyData_, <<>>, <<"Output tube poly data is null. No model generated.">>)
  ELSE LET numberControlPoints == GetNumberOfPoints(controlPts)
       IN  IF numberControlPoints <= 0
           THEN NoControlPoints(outputTubePolyData_)
           ELSE IF numberControlPoints = 1
           THEN GenerateSphereModel(<<GetPoint(controlPts, 0)>>, outputTubePolyData_, tubeRadius, tubeNumberOfSides)
           ELSE IF numberControlPoints = 2
           THEN TwoControlPoints(controlPts, outputTubePolyData_, tubeRadius, tubeNumberOfSides, segments, tubeLoop)
           ELSE LET allocated == AllocateCurvePoints(controlPts, segments, tubeLoop)
                    numberSegmentsToInterpolate == IF tubeLoop THEN numberControlPoints ELSE numberControlPoints - 1
                    sampled == SplineSegments(controlPts, tubeLoop, segments, numberSegmentsToInterpolate, 0, deviation, allocated)
                IN  FinishCurve(controlPts, sampled, outputTubePolyData_, tubeRadius, tubeNumberOfSides, segments, tubeLoop)

\* kochanek: <<bias, continuity, tension, endsCopyNearestDerivatives>>, handed to the library
GenerateKochanekSplineCurveModel(controlPts, outputTubePolyData_, tubeRadius, tubeNumberOfSides, segments, tubeLoop, kochanek, deviation) ==
  IF controlPts = NullPoints
  THEN Outcome(outputTubePolyData_, <<>>, <<"Control points are null. No model generated.">>)
  ELSE IF outputTubePolyData_ = NullPolyData
  THEN Outcome(outputTubePolyData_, <<>>, <<"Output tube poly data is null. No model generated.">>)
  ELSE LET numberControlPoints == GetNumberOfPoints(controlPts)
       IN  IF numberControlPoints <= 0
           THEN NoControlPoints(outputTubePolyData_)
           ELSE IF numberControlPoints = 1
           THEN GenerateSphereModel(<<GetPoint(controlPts, 0)>>, outputTubePolyData_, tubeRadius, tubeNumberOfSides)
           ELSE IF numberControlPoints = 2
           THEN TwoControlPoints(controlPts, outputTubePolyData_, tubeRadius, tubeNumberOfSides, segments, tubeLoop)
           ELSE LET allocated == AllocateCurvePoints(controlPts, segments, tubeLoop)
                    numberSegmentsToInterpolate == IF tubeLoop THEN numberControlPoints ELSE numberControlPoints - 1
                    sampled == SplineSegments(controlPts, tubeLoop, segments, numberSegmentsToInterpolate, 0, deviation, allocated)
                IN  FinishCurve(controlPts, sampled, outputTubePolyData_, tubeRadius, tubeNumberOfSides, segments, tubeLoop)

----------------------------------------------------------------------------
(* Point parameters *)

\* what a parameterizer leaves behind: the content of pointParameters and the warnings
ParameterOutcome(parameters, warned) == [parameters |-> parameters, warnings |-> warned]

ClearingWarning(array) ==
  IF Len(array) > 0 THEN <<"pointParameters already has contents. Clearing.">> ELSE <<>>

IndexParameter_ByCount(v, numPoints) == Rat(v, numPoints)

\* v / double(numPoints - 1)
IndexParameter(v, numPoints) == Rat(v, numPoints - 1)

ComputePointParametersFromIndices(points, parameters) ==
  IF points = NullPoints
  THEN ParameterOutcome(parameters, <<"Input control points are null. Returning.">>)
  ELSE IF parameters = NullArray
  THEN ParameterOutcome(parameters, <<"Output control point parameters are null. Returning.">>)
  ELSE LET numPoints == GetNumberOfPoints(points)
       IN  IF numPoints < 2
           THEN ParameterOutcome(parameters, <<"Not enough points to compute polynomial parameters.">>)
           ELSE ParameterOutcome(Stored([k \in 1..numPoints |-> IndexParameter(k - 1, numPoints)]),
                                 ClearingWarning(parameters))

----------------------------------------------------------------------------
(* Minimum spanning tree parameters.  Vertices are the 0-based point        *)
(* indices; the arrays of the code are functions over 0..numPoints-1.       *)
(* Distances are exact: the inputs are point sets whose pairwise distances  *)
(* are integers, so sqrt is the integer root.                               *)

VTK_DOUBLE_MAX == 1000000

Sqrt(n) == CHOOSE r \in 0..n : r * r = n

\* dist3D of points u and v (integer coordinates)
Distance3D(points, u, v) ==
  LET pointU == GetPoint(points, u)
      pointV == GetPoint(points, v)
      distX == pointU[1][1] - pointV[1][1]
      distY == pointU[2][1] - pointV[2][1]
      distZ == pointU[3][1] - pointV[3][1]
  IN  Sqrt(distX * distX + distY * distY + distZ * distZ)

\* graph[v][u]
Graph(points) ==
  [v \in 0..(GetNumberOfPoints(points) - 1) |->
     [u \in 0..(GetNumberOfPoints(points) - 1) |-> Distance3D(points, u, v)]]

\* the double loop that finds the farthest pair, from step k = v * numPoints + u on;
\* best = <<maximumDistance, treeStartIndex, treeEndIndex>>
RECURSIVE FarthestPair(_, _, _, _)
FarthestPair(graph, numPoints, k, best) ==
  IF k >= numPoints * numPoints
  THEN best
  ELSE LET v == k \div numPoints
           u == k % numPoints
           dist3D == graph[v][u]
       IN  FarthestPair(graph, numPoints, k + 1,
                        IF dist3D > best[1] THEN <<dist3D, v, u>> ELSE best)

RECURSIVE PickMinimumKey_First(_, _, _, _, _, _)
PickMinimumKey_First(key, mstSet, numPoints, v, minDistance, nextPointIndex) ==
  IF v >= numPoints
  THEN nextPointIndex
  ELSE IF mstSet[v] = FALSE /\ key[v] < minDistance
       THEN v
       ELSE PickMinimumKey_First(key, mstSet, numPoints, v + 1, minDistance, nextPointIndex)

\* the vertex Prim picks: the first vertex outside the tree with the least key, -1 if none
RECURSIVE PickMinimumKey(_, _, _, _, _, _)
PickMinimumKey(key, mstSet, numPoints, v, minDistance, nextPointIndex) ==
  IF v >= numPoints
  THEN nextPointIndex
  ELSE IF mstSet[v] = FALSE /\ key[v] < minDistance
       THEN PickMinimumKey(key, mstSet, numPoints, v + 1, key[v], v)
       ELSE PickMinimumKey(key, mstSet, numPoints, v + 1, minDistance, nextPointIndex)

\* Prim's loop from iteration count on; returns parent
RECURSIVE PrimLoop(_, _, _, _, _, _)
PrimLoop(graph, numPoints, count, parent, key, mstSet) ==
  IF count >= numPoints - 1
  THEN parent
  ELSE LET nextPointIndex == PickMinimumKey(key, mstSet, numPoints, 0, VTK_DOUBLE_MAX, -1)
           mstSetNow == [mstSet EXCEPT ![nextPointIndex] = TRUE]
           updated(v) == /\ graph[nextPointIndex][v] >= 0
                         /\ mstSetNow[v] = FALSE
                         /\ graph[nextPointIndex][v] < key[v]
           parentNow == [v \in DOMAIN parent |-> IF updated(v) THEN nextPointIndex ELSE parent[v]]
           keyNow == [v \in DOMAIN key |-> IF updated(v) THEN graph[nextPointIndex][v] ELSE key[v]]
       IN  PrimLoop(graph, numPoints, count + 1, parentNow, keyNow, mstSetNow)

\* parent after Prim's algorithm rooted at treeStartIndex
PrimParent(graph, numPoints, treeStartIndex) ==
  PrimLoop(graph, numPoints, 0,
           [v \in 0..(numPoints - 1) |-> IF v = treeStartIndex THEN -1 ELSE 0],
           [v \in 0..(numPoints - 1) |-> IF v = treeStartIndex THEN 0 ELSE VTK_DOUBLE_MAX],
           [v \in 0..(numPoints - 1) |-> FALSE])

\* pathIndices: the walk up the parents from currentPathIndex, appended to path
RECURSIVE TrunkPath(_, _, _)
TrunkPath(parent, currentPathIndex, path) ==
  IF currentPathIndex = -1
  THEN path
  ELSE TrunkPath(parent, parent[currentPathIndex], Append(path, currentPathIndex))

\* graph[0][1] + ... + graph[n-1][n]: the sum the code accumulates over i < n
RECURSIVE SumOfDistances(_, _)
SumOfDistances(graph, n) ==
  IF n <= 0 THEN 0 ELSE SumOfDistances(graph, n - 1) + graph[n - 1][n]

PathParameters_NotAccumulated(graph, pathSize) ==
  LET sumOfDistances == SumOfDistances(graph, pathSize - 1)
  IN  Stored([j \in 1..pathSize |->
                Rat(IF j = 1 THEN 0 ELSE graph[j - 2][j - 1], sumOfDistances)])

\* pathParameters, one per entry of pathIndices
PathParameters(graph, pathSize) ==
  LET sumOfDistances == SumOfDistances(graph, pathSize - 1)
  IN  Stored([j \in 1..pathSize |-> Rat(SumOfDistances(graph, j - 1), sumOfDistances)])

\* position (1-based) of vertex in pathIndices, 0 if it is not on the path
IndexAlongPath(pathIndices, vertex) ==
  IF \E j \in DOMAIN pathIndices : pathIndices[j] = vertex
  THEN CHOOSE j \in DOMAIN pathIndices :
         /\ pathIndices[j] = vertex
         /\ \A h \in 1..(j - 1) : pathIndices[h] # vertex
  ELSE 0

TrunkAncestor_Start(parent, pathIndices, currentIndex) ==
  IF IndexAlongPath(pathIndices, currentIndex) # 0
  THEN currentIndex
  ELSE pathIndices[Len(pathIndices)]

\* the walk of an off-path vertex up its parents until the path is met
RECURSIVE TrunkAncestor(_, _, _)
TrunkAncestor(parent, pathIndices, currentIndex) ==
  IF IndexAlongPath(pathIndices, currentIndex) # 0
  THEN currentIndex
  ELSE TrunkAncestor(parent, pathIndices, parent[currentIndex])

ComputePointParametersFromMinimumSpanningTree(points, parameters) ==
  IF points = NullPoints
  THEN ParameterOutcome(parameters, <<"Input points are null. Returning">>)
  ELSE IF parameters = NullArray
  THEN ParameterOutcome(parameters, <<"Output point parameters are null. Returning">>)
  ELSE LET numPoints == GetNumberOfPoints(points)
       IN  IF numPoints < 2
           THEN ParameterOutcome(parameters, <<"Not enough points to compute polynomial parameters.">>)
           ELSE LET graph == Graph(points)
                    farthest == FarthestPair(graph, numPoints, 0, <<0, 0, 0>>)
                    treeStartIndex == farthest[2]
                    treeEndIndex == farthest[3]
                    parent == PrimParent(graph, numPoints, treeStartIndex)
                    pathIndices == TrunkPath(parent, treeEndIndex, <<>>)
                    sumOfDistances == SumOfDistances(graph, Len(pathIndices) - 1)
                    pathParameters == PathParameters(graph, Len(pathIndices))
                IN  IF sumOfDistances = 0
                    THEN ParameterOutcome(parameters, <<"Minimum spanning tree path has distance zero. No parameters will be assigned.">>)
                    ELSE ParameterOutcome(
                           Stored([k \in 1..numPoints |->
                              pathParameters[IndexAlongPath(pathIndices, TrunkAncestor(parent, pathIndices, k - 1))]]),
                           ClearingWarning(parameters))

----------------------------------------------------------------------------
(* Least-squares polynomial *)

RECURSIVE RSum(_, _)
RSum(f, n) == IF n = 0 THEN RZero ELSE RAdd(RSum(f, n - 1), f[n])

\* Gauss-Jordan elimination of the augmented matrix m, from pivot k on
RECURSIVE Eliminate(_, _)
Eliminate(m, k) ==
  IF k > Len(m)
  THEN m
  ELSE LET pivotRow == Stored([j \in 1..Len(m[k]) |-> RDiv(m[k][j], m[k][k])])
           reduced == Stored([r \in 1..Len(m) |->
                         IF r = k THEN pivotRow
                         ELSE Stored([j \in 1..Len(m[r]) |-> RSub(m[r][j], RMul(m[r][k], pivotRow[j]))])])
       IN  Eliminate(reduced, k + 1)

\* vtkMath::SolveLeastSquares (external): the minimiser of the squared residuals of
\* xt * mt = yt, by the normal equations.  xt: numberOfSamples rows of xOrder values;
\* yt: numberOfSamples rows of yOrder values; result: xOrder rows of yOrder values.
\* (A column of yt that is all zero is a homogeneous system to the library; the inputs
\* of this model have none.)
SolveLeastSquares(numberOfSamples, xt, xOrder, yt, yOrder) ==
  LET normal == Stored([c \in 1..xOrder |->
                   Stored([j \in 1..(xOrder + yOrder) |->
                      IF j <= xOrder
                      THEN RSum([p \in 1..numberOfSamples |-> RMul(xt[p][c], xt[p][j])], numberOfSamples)
                      ELSE RSum([p \in 1..numberOfSamples |-> RMul(xt[p][c], yt[p][j - xOrder])], numberOfSamples)])])
      solved == Eliminate(normal, 1)
  IN  Stored([c \in 1..xOrder |-> Stored([d \in 1..yOrder |-> solved[c][xOrder + d]])])

maximumPolynomialOrder == 6
numDimensions == 3

\* the order the fit is made with: bounded from above only, a negative request stays
ClampedPolynomialOrder(polynomialOrder) ==
  IF polynomialOrder > maximumPolynomialOrder THEN maximumPolynomialOrder ELSE polynomialOrder

UnsupportedOrderWarning(polynomialOrder) ==
  IF polynomialOrder > maximumPolynomialOrder
  THEN <<"Desired polynomial order is not supported. Will attempt maximum polynomial order instead.">>
  ELSE <<>>

NumUniquePointParameters(parameters) == Cardinality({parameters[k] : k \in DOMAIN parameters})

NumPolynomialCoefficients(polynomialOrder, parameters) ==
  LET requested == ClampedPolynomialOrder(polynomialOrder) + 1
      numUniquePointParameters == NumUniquePointParameters(parameters)
  IN  IF numUniquePointParameters < requested THEN numUniquePointParameters ELSE requested

\* independentMatrix[p][c] = pow(parameter[p], c)
IndependentMatrix(numPoints, numPolynomialCoefficients, parameters) ==
  Stored([p \in 1..numPoints |->
     Stored([c \in 1..numPolynomialCoefficients |-> RPow(GetValue(parameters, p - 1), c - 1)])])

\* dependentMatrix[p][d] = coordinate d of point p
DependentMatrix(points) ==
  Stored([p \in 1..GetNumberOfPoints(points) |-> Stored([d \in 1..numDimensions |-> GetPoint(points, p - 1)[d]])])

NumPointsOnCurve_PerControlPoint(numPoints, segments) == numPoints * segments + 1

NumPointsOnCurve(numPoints, segments) == (numPoints - 1) * segments + 1

\* the points along the fitted polynomial
SmoothedPoints(coefficients, numPolynomialCoefficients, numPointsOnCurve) ==
  Stored([k \in 1..numPointsOnCurve |->
     Stored([d \in 1..numDimensions |->
        RSum([c \in 1..numPolynomialCoefficients |->
                RMul(coefficients[c][d], RPow(Rat(k - 1, numPointsOnCurve - 1), c - 1))],
             numPolynomialCoefficients)])])

ParameterCountMismatch_Clears(outputTubePolyData_) ==
  Outcome(EmptyPolyData, <<>>, <<"Incorrect number of point parameters provided. No output created.">>)

\* the parameter array does not have one entry per point: warning and return
ParameterCountMismatch(outputTubePolyData_) ==
  Outcome(outputTubePolyData_, <<>>, <<"Incorrect number of point parameters provided. No output created.">>)

\* the fit and the mesh, once the parameters are known to be one per point.
\* With tubeRadius > 0 the tube is copied into outputTubePolyData; otherwise the line is
\* copied into `outputTube`, which is not the outputTubePolyData argument of this function.
PolynomialFit(points, outputTubePolyData_, tubeRadius, tubeNumberOfSides, segments, polynomialOrder, parameters, warned) ==
  LET numPoints == GetNumberOfPoints(points)
      numPolynomialCoefficients == NumPolynomialCoefficients(polynomialOrder, parameters)
      coefficients == SolveLeastSquares(numPoints,
                        IndependentMatrix(numPoints, numPolynomialCoefficients, parameters),
                        numPolynomialCoefficients, DependentMatrix(points), numDimensions)
      smoothedPoints == SmoothedPoints(coefficients, numPolynomialCoefficients, NumPointsOnCurve(numPoints, segments))
      smoothedSegments == LinePolyData(smoothedPoints)
      nowWarned == warned \o UnsupportedOrderWarning(polynomialOrder)
  IN  IF tubeRadius > 0
      THEN Outcome(TubeFilter(smoothedSegments, tubeRadius, tubeNumberOfSides), smoothedPoints, nowWarned)
      ELSE Outcome(outputTubePolyData_, smoothedPoints, nowWarned)

GeneratePolynomialCurveModel(points, outputTubePolyData_, tubeRadius, tubeNumberOfSides, segments, tubeLoop, polynomialOrder, inputPointParameters) ==
  IF points = NullPoints
  THEN Outcome(outputTubePolyData_, <<>>, <<"Input points are null. No model generated.">>)
  ELSE IF outputTubePolyData_ = NullPolyData
  THEN Outcome(outputTubePolyData_, <<>>, <<"Output tube poly data is null. No model generated.">>)
  ELSE LET numPoints == GetNumberOfPoints(points)
       IN  IF numPoints <= 0
           THEN NoControlPoints(outputTubePolyData_)
           ELSE IF numPoints = 1
           THEN GenerateSphereModel(<<GetPoint(points, 0)>>, outputTubePolyData_, tubeRadius, tubeNumberOfSides)
           ELSE IF numPoints = 2
           THEN TwoControlPoints(points, outputTubePolyData_, tubeRadius, tubeNumberOfSides, segments, tubeLoop)
           ELSE IF inputPointParameters = NullArray
           THEN LET computed == ComputePointParametersFromIndices(points, <<>>)
                IN  PolynomialFit(points, outputTubePolyData_, tubeRadius, tubeNumberOfSides, segments,
                                  polynomialOrder, computed.parameters, computed.warnings)
           ELSE IF Len(inputPointParameters) # numPoints
           THEN ParameterCountMismatch(outputTubePolyData_)
           ELSE PolynomialFit(points, outputTubePolyData_, tubeRadius, tubeNumberOfSides, segments,
                              polynomialOrder, inputPointParameters, <<>>)

----------------------------------------------------------------------------
(* Inputs *)

\* points with integer pairwise distances 3, 3, 6, 4, 5, 5
\* no coordinate is 0, so that no column of the least-squares targets is all zero
CurvePointDomain == {PointOf(1, 1, 1), PointOf(4, 1, 1), PointOf(4, 1, 5)}
TreePointDomain == CurvePointDomain \cup {PointOf(7, 1, 1)}

SeqsUpTo(domain, n) == UNION {[1..m -> domain] : m \in 0..n}

\* n points along a line at unit spacing in index order
UnitLine(n) == [k \in 1..n |-> PointOf(1, k, 1)]

CurveControlPointInputs == {NullPoints} \cup SeqsUpTo(CurvePointDomain, MaxControlPoints)
TreePointInputs ==
  {NullPoints} \cup SeqsUpTo(TreePointDomain, MaxParameterPoints)
               \cup {UnitLine(n) : n \in 0..MaxParameterPoints}

\* what the output poly data may hold from an earlier use
StalePolyData == SphereSource(PointOf(7, 1, 1), 1, 8)
PolyDataInputs == {NullPolyData, EmptyPolyData, StalePolyData}

\* what a parameter array may hold when it is passed in
ParameterInputs == {NullArray, <<>>, <<RZero, RZero, ROne>>}

TubeRadiusInputs == {0, 1}
TubeNumberOfSidesInputs == {3, 8}
SegmentInputs == 1..MaxSegments
PolynomialOrderInputs == {-1, 0, 2, 7}
KochanekInputs == {<<0, 0, 0, FALSE>>, <<1, 1, 1, TRUE>>}

NoCall ==
  [op |-> "none", tubeRadius |-> 0, tubeNumberOfSides |-> 0, segments |-> 0, tubeLoop |-> FALSE,
   polynomialOrder |-> 0, inputPointParameters |-> NullArray,
   kochanek |-> <<0, 0, 0, FALSE>>, deviation |-> RZero, point |-> NullPoints]

TubeCall(op, tubeRadius, tubeNumberOfSides, segments, tubeLoop) ==
  [NoCall EXCEPT !.op = op, !.tubeRadius = tubeRadius, !.tubeNumberOfSides = tubeNumberOfSides,
                 !.segments = segments, !.tubeLoop = tubeLoop]

----------------------------------------------------------------------------
(* Actions: one call each *)

\* the caller's objects after a call that returned `outcome`
Returned(outcome, made) ==
  /\ outputTubePolyData' = outcome.polyData
  /\ curvePoints' = outcome.curvePoints
  /\ warnings' = outcome.warnings
  /\ call' = made
  /\ UNCHANGED <<controlPoints, pointParameters>>

CallGetTubePolyDataFromPoints ==
  /\ call.op = "none"
  /\ \E tubeRadius \in TubeRadiusInputs, tubeNumberOfSides \in TubeNumberOfSidesInputs :
       Returned(GetTubePolyDataFromPoints(controlPoints, outputTubePolyData, tubeRadius, tubeNumberOfSides),
                TubeCall("GetTubePolyDataFromPoints", tubeRadius, tubeNumberOfSides, 0, FALSE))

CallGenerateSphereModel ==
  /\ call.op = "none"
  /\ \E point \in {NullPoints} \cup {<<p>> : p \in CurvePointDomain},
        sphereRadius \in TubeRadiusInputs, sphereNumberOfSides \in TubeNumberOfSidesInputs :
       Returned(GenerateSphereModel(point, outputTubePolyData, sphereRadius, sphereNumberOfSides),
                [TubeCall("GenerateSphereModel", sphereRadius, sphereNumberOfSides, 0, FALSE) EXCEPT !.point = point])

CallGeneratePiecewiseLinearCurveModel ==
  /\ call.op = "none"
  /\ \E tubeRadius \in TubeRadiusInputs, tubeNumberOfSides \in TubeNumberOfSidesInputs,
        segments \in SegmentInputs, tubeLoop \in BOOLEAN :
       Returned(GeneratePiecewiseLinearCurveModel(controlPoints, outputTubePolyData, tubeRadius, tubeNumberOfSides, segments, tubeLoop),
                TubeCall("GeneratePiecewiseLinearCurveModel", tubeRadius, tubeNumberOfSides, segments, tubeLoop))

CallGenerateCardinalSplineCurveModel ==
  /\ call.op = "none"
  /\ \E tubeRadius \in TubeRadiusInputs, tubeNumberOfSides \in TubeNumberOfSidesInputs,
        segments \in SegmentInputs, tubeLoop \in BOOLEAN, deviation \in SplineDeviations :
       Returned(GenerateCardinalSplineCurveModel(controlPoints, outputTubePolyData, tubeRadius, tubeNumberOfSides, segments, tubeLoop, deviation),
                [TubeCall("GenerateCardinalSplineCurveModel", tubeRadius, tubeNumberOfSides, segments, tubeLoop)
                   EXCEPT !.deviation = deviation])

CallGenerateKochanekSplineCurveModel ==
  /\ call.op = "none"
  /\ \E tubeRadius \in TubeRadiusInputs, tubeNumberOfSides \in TubeNumberOfSidesInputs,
        segments \in SegmentInputs, tubeLoop \in BOOLEAN,
        kochanek \in KochanekInputs, deviation \in SplineDeviations :
       Returned(GenerateKochanekSplineCurveModel(controlPoints, outputTubePolyData, tubeRadius, tubeNumberOfSides, segments, tubeLoop, kochanek, deviation),
                [TubeCall("GenerateKochanekSplineCurveModel", tubeRadius, tubeNumberOfSides, segments, tubeLoop)
                   EXCEPT !.kochanek = kochanek, !.deviation = deviation])

CallGeneratePolynomialCurveModel ==
  /\ call.op = "none"
  /\ \E tubeRadius \in TubeRadiusInputs, tubeNumberOfSides \in TubeNumberOfSidesInputs,
        segments \in SegmentInputs, tubeLoop \in BOOLEAN, polynomialOrder \in PolynomialOrderInputs,
        inputPointParameters \in ParameterInputs :
       Returned(GeneratePolynomialCurveModel(controlPoints, outputTubePolyData, tubeRadius, tubeNumberOfSides, segments, tubeLoop, polynomialOrder, inputPointParameters),
                [TubeCall("GeneratePolynomialCurveModel", tubeRadius, tubeNumberOfSides, segments, tubeLoop)
                   EXCEPT !.polynomialOrder = polynomialOrder, !.inputPointParameters = inputPointParameters])

\* the caller's objects after a parameterizer returned `outcome`
ReturnedParameters(outcome, op) ==
  /\ pointParameters' = outcome.parameters
  /\ warnings' = outcome.warnings
  /\ call' = [NoCall EXCEPT !.op = op]
  /\ UNCHANGED <<controlPoints, outputTubePolyData, curvePoints>>

CallComputePointParametersFromIndices ==
  /\ call.op = "none"
  /\ ReturnedParameters(ComputePointParametersFromIndices(controlPoints, pointParameters),
                        "ComputePointParametersFromIndices")

CallComputePointParametersFromMinimumSpanningTree ==
  /\ call.op = "none"
  /\ ReturnedParameters(ComputePointParametersFromMinimumSpanningTree(controlPoints, pointParameters),
                        "ComputePointParametersFromMinimumSpanningTree")

----------------------------------------------------------------------------
(* Specifications *)

\* curve generation: the four samplers and the mesh builders
Init ==
  /\ controlPoints \in CurveControlPointInputs
  /\ outputTubePolyData \in PolyDataInputs
  /\ pointParameters = NullArray
  /\ curvePoints = <<>>
  /\ warnings = <<>>
  /\ call = NoCall

Next ==
  \/ CallGetTubePolyDataFromPoints
  \/ CallGenerateSphereModel
  \/ CallGeneratePiecewiseLinearCurveModel
  \/ CallGenerateCardinalSplineCurveModel
  \/ CallGenerateKochanekSplineCurveModel
  \/ CallGeneratePolynomialCurveModel

Spec == Init /\ [][Next]_vars

\* point parameterization
InitParameters ==
  /\ controlPoints \in TreePointInputs
  /\ outputTubePolyData = EmptyPolyData
  /\ pointParameters \in ParameterInputs
  /\ curvePoints = <<>>
  /\ warnings = <<>>
  /\ call = NoCall

NextParameters ==
  \/ CallComputePointParametersFromIndices
  \/ CallComputePointParametersFromMinimumSpanningTree

SpecParameters == InitParameters /\ [][NextParameters]_vars

\* every function of the class, on few control points
AllPointInputs == {NullPoints} \cup SeqsUpTo({PointOf(1, 1, 1), PointOf(4, 1, 1)}, MaxControlPoints)

InitAll ==
  /\ controlPoints \in AllPointInputs
  /\ outputTubePolyData \in PolyDataInputs
  /\ pointParameters \in ParameterInputs
  /\ curvePoints = <<>>
  /\ warnings = <<>>
  /\ call = NoCall

NextAll ==
  \/ CallGetTubePolyDataFromPoints
  \/ CallGenerateSphereModel
  \/ CallGeneratePiecewiseLinearCurveModel
  \/ CallGenerateCardinalSplineCurveModel
  \/ CallGenerateKochanekSplineCurveModel
  \/ CallGeneratePolynomialCurveModel
  \/ CallComputePointParametersFromIndices
  \/ CallComputePointParametersFromMinimumSpanningTree

SpecAll == InitAll /\ [][NextAll]_vars

----------------------------------------------------------------------------
(* Properties of curve generation (specification Spec) *)

SamplerOps ==
  {"GeneratePiecewiseLinearCurveModel", "GenerateCardinalSplineCurveModel",
   "GenerateKochanekSplineCurveModel", "GeneratePolynomialCurveModel"}

InterpolatingOps ==
  {"GeneratePiecewiseLinearCurveModel", "GenerateCardinalSplineCurveModel",
   "GenerateKochanekSplineCurveModel"}

\* a sampler was called with control points and an output that are both present
SamplerRan == call.op \in SamplerOps /\ controlPoints # NullPoints /\ outputTubePolyData # NullPolyData
SamplerRuns == call'.op \in SamplerOps /\ controlPoints # NullPoints /\ outputTubePolyData # NullPolyData

NumberControlPoints == IF controlPoints = NullPoints THEN -1 ELSE Len(controlPoints)

IsEmptyPolyData(polyData) == polyData.points = <<>> /\ polyData.lines = <<>>

\* C1 as stated: after any sampler ran on 0 control points the output mesh is empty,
\* whatever it held before.
C1_EmptyAfterNoPoints ==
  (SamplerRan /\ NumberControlPoints = 0) => IsEmptyPolyData(outputTubePolyData)

\* C1 amended: a sampler called on 0 control points returns without a warning and
\* leaves the output mesh exactly as it was before the call (it builds nothing).
C1_NoPointsLeavesOutput ==
  [][(SamplerRuns /\ NumberControlPoints = 0)
       => (outputTubePolyData' = outputTubePolyData /\ warnings' = <<>> /\ curvePoints' = <<>>)]_vars

C1_Witness ==
  /\ call.op = "GenerateKochanekSplineCurveModel"
  /\ NumberControlPoints = 0
  /\ outputTubePolyData = StalePolyData
  /\ warnings = <<>>

\* C2: after any sampler ran on exactly 1 control point, for every tubeLoop and every
\* mode-specific argument, the output mesh is the sphere centered at that point with
\* radius tubeRadius and resolution tubeNumberOfSides, and no curve was sampled.
C2_OnePointIsSphere ==
  (SamplerRan /\ NumberControlPoints = 1)
    => /\ outputTubePolyData.kind = "sphere"
       /\ outputTubePolyData.points = <<GetPoint(controlPoints, 0)>>
       /\ outputTubePolyData.radius = call.tubeRadius
       /\ outputTubePolyData.sides = call.tubeNumberOfSides
       /\ curvePoints = <<>>

C2_Witness ==
  /\ call.op = "GeneratePolynomialCurveModel"
  /\ call.tubeLoop /\ call.polynomialOrder = 7 /\ call.tubeNumberOfSides = 3 /\ call.tubeRadius = 1
  /\ controlPoints = <<PointOf(4, 1, 5)>>
  /\ outputTubePolyData = SphereSource(PointOf(4, 1, 5), 1, 3)

\* what the Linear sampler writes for the control points and the tube arguments of the call
LinearOutcomeOfCall ==
  GeneratePiecewiseLinearCurveModel(controlPoints, EmptyPolyData, call.tubeRadius,
                                    call.tubeNumberOfSides, call.segments, call.tubeLoop)

\* C3: on 2 control points the CardinalSpline, KochanekSpline and Polynomial samplers leave
\* the output mesh (and dense point sequence) the Linear sampler produces for the same control
\* points, tubeRadius, tubeNumberOfSides, segmentsBetweenControlPoints and tubeLoop, whatever
\* the Kochanek shape arguments, the polynomial order and the parameter array.
C3_TwoPointsAsLinear ==
  (SamplerRan /\ call.op # "GeneratePiecewiseLinearCurveModel" /\ NumberControlPoints = 2)
    => /\ outputTubePolyData = LinearOutcomeOfCall.polyData
       /\ curvePoints = LinearOutcomeOfCall.curvePoints
       /\ Len(curvePoints) = (IF call.tubeLoop THEN 2 * call.segments + 2 ELSE call.segments + 1)

C3_Witness ==
  /\ call.op = "GenerateKochanekSplineCurveModel"
  /\ call.kochanek = <<1, 1, 1, TRUE>> /\ call.deviation = ROne
  /\ call.tubeLoop /\ call.segments = 2 /\ call.tubeRadius = 1
  /\ controlPoints = <<PointOf(1, 1, 1), PointOf(4, 1, 5)>>
  /\ outputTubePolyData.kind = "tube"
  /\ Len(curvePoints) = 6

\* a dense point sequence was handed to the mesh builder by a looped call on N >= 2 points
LoopedCurve ==
  /\ SamplerRan /\ call.tubeLoop /\ call.segments >= 1
  /\ NumberControlPoints >= 2
  /\ curvePoints # <<>>

\* C4 as stated: for every sampler run looped on N >= 2 control points, the first and the
\* last point of the dense point sequence are identical.
C4_LoopSeamEverySampler ==
  LoopedCurve => curvePoints[1] = curvePoints[Len(curvePoints)]

\* C4 amended: the first and the last dense point are identical for the Linear,
\* CardinalSpline and KochanekSpline samplers run looped on N >= 2 control points, and for
\* the Polynomial sampler on N = 2 (where it runs the Linear sampler); the Polynomial
\* sampler on N >= 3 ignores tubeLoop.
C4_LoopSeamInterpolating ==
  (LoopedCurve /\ (call.op \in InterpolatingOps \/ NumberControlPoints = 2))
    => /\ curvePoints[1] = curvePoints[Len(curvePoints)]
       /\ Len(curvePoints) = NumberControlPoints * call.segments + 2

C4_Witness ==
  /\ LoopedCurve
  /\ call.op = "GenerateCardinalSplineCurveModel"
  /\ NumberControlPoints = 3 /\ call.segments = 2
  /\ controlPoints[1] # controlPoints[2]
  /\ curvePoints[1] = curvePoints[8]
  /\ curvePoints[1] # controlPoints[1]

\* C5 as stated: with tubeRadius = 0, whenever a dense point sequence was built (by
\* GetTubePolyDataFromPoints or by any sampler, the Polynomial sampler on N >= 3 included),
\* the caller's output mesh is the line mesh of that sequence: its points, and one polyline
\* cell visiting every point in index order.
C5_ZeroRadiusIsLine ==
  (/\ call.op \in SamplerOps \cup {"GetTubePolyDataFromPoints"}
   /\ call.tubeRadius = 0
   /\ curvePoints # <<>>)
    => /\ outputTubePolyData.kind = "line"
       /\ outputTubePolyData.points = curvePoints
       /\ outputTubePolyData.lines = << [k \in 1..Len(curvePoints) |-> k - 1] >>

MismatchWarning == <<"Incorrect number of point parameters provided. No output created.">>

\* GeneratePolynomialCurveModel is called with control points, an output, and a parameter
\* array whose length is not the number of control points
MismatchedPolynomialCall ==
  /\ call'.op = "GeneratePolynomialCurveModel"
  /\ controlPoints # NullPoints /\ outputTubePolyData # NullPolyData
  /\ call'.inputPointParameters # NullArray
  /\ Len(call'.inputPointParameters) # NumberControlPoints

\* C10 as stated: whenever GeneratePolynomialCurveModel is passed a parameter array whose
\* length differs from the number of points, for any N >= 1, generation aborts with the
\* mismatch warning and the output mesh is left unchanged.
C10_MismatchAbortsAnyCount ==
  [][(MismatchedPolynomialCall /\ NumberControlPoints >= 1)
       => (outputTubePolyData' = outputTubePolyData /\ warnings' = MismatchWarning)]_vars

\* C10 amended: whenever GeneratePolynomialCurveModel is passed a parameter array whose
\* length differs from the number of points, for N >= 3, generation aborts with the mismatch
\* warning, builds no curve, and leaves the output mesh unchanged (with N = 1 or N = 2 the
\* array is not looked at and the sphere, respectively the linear curve, is generated).
C10_MismatchAbortsFromThreePoints ==
  [][(MismatchedPolynomialCall /\ NumberControlPoints >= 3)
       => /\ outputTubePolyData' = outputTubePolyData
          /\ warnings' = MismatchWarning
          /\ curvePoints' = <<>>]_vars

C10_Witness ==
  /\ call.op = "GeneratePolynomialCurveModel"
  /\ NumberControlPoints = 3
  /\ call.inputPointParameters = <<>>
  /\ call.tubeRadius = 1
  /\ outputTubePolyData = StalePolyData
  /\ warnings = MismatchWarning

\* GeneratePolynomialCurveModel ran on N >= 3 points and got as far as the fit
PolynomialFitted ==
  /\ call.op = "GeneratePolynomialCurveModel"
  /\ controlPoints # NullPoints /\ outputTubePolyData # NullPolyData
  /\ NumberControlPoints >= 3
  /\ call.inputPointParameters # NullArray => Len(call.inputPointParameters) = NumberControlPoints

\* C11 as stated: for every requested integer polynomialOrder, the order the fit of
\* GeneratePolynomialCurveModel (N >= 3) is made with lies in [0,6]: a request above 6 is
\* replaced by 6 with a downgrade warning and the curve is still built, a request within
\* [0,6] is used as is without the warning, and the number of coefficients before the
\* distinct-parameter reduction is between 1 and 7.
C11_OrderWithinRange ==
  PolynomialFitted
    => LET order == ClampedPolynomialOrder(call.polynomialOrder)
           downgraded == \E k \in DOMAIN warnings : <<warnings[k]>> = UnsupportedOrderWarning(maximumPolynomialOrder + 1)
       IN  /\ order \in 0..maximumPolynomialOrder
           /\ order + 1 \in 1..(maximumPolynomialOrder + 1)
           /\ call.polynomialOrder > maximumPolynomialOrder
                => (order = maximumPolynomialOrder /\ downgraded /\ curvePoints # <<>>)
           /\ call.polynomialOrder \in 0..maximumPolynomialOrder
                => (order = call.polynomialOrder /\ ~downgraded)

\* an interpolating sampler sampled a curve: N >= 2 control points, S >= 1
InterpolatedCurve ==
  /\ SamplerRan /\ call.op \in InterpolatingOps
  /\ NumberControlPoints >= 2 /\ call.segments >= 1

\* the slot holds a point that was written: three coordinates, each a number
WrittenSlot(slot) ==
  /\ slot # OutOfRangeWrite /\ slot # UnwrittenPoint
  /\ Len(slot) = 3
  /\ \A d \in 1..3 : slot[d][2] > 0

\* C13: for the Linear, CardinalSpline and KochanekSpline samplers on N >= 2 control points
\* with S >= 1, the dense buffer handed to GetTubePolyDataFromPoints has N*S+2 slots when
\* looped and (N-1)*S+1 when open, no write of the sampling loop, of the final point or of
\* CloseLoop fell outside the buffer, and every slot has been written.
C13_BufferFullyWritten ==
  InterpolatedCurve
    => /\ Len(curvePoints) = (IF call.tubeLoop
                               THEN NumberControlPoints * call.segments + 2
                               ELSE (NumberControlPoints - 1) * call.segments + 1)
       /\ \A k \in DOMAIN curvePoints : WrittenSlot(curvePoints[k])
       /\ outputTubePolyData.points = curvePoints

C13_Witness ==
  /\ InterpolatedCurve
  /\ call.op = "GenerateKochanekSplineCurveModel"
  /\ call.tubeLoop /\ call.segments = 2 /\ NumberControlPoints = 3
  /\ Len(curvePoints) = 8
  /\ \A k \in DOMAIN curvePoints : WrittenSlot(curvePoints[k])

\* the Linear sampler sampled N >= 2 control points, or a spline sampler N >= 3
SampledByItsOwnLoop ==
  InterpolatedCurve /\ (call.op = "GeneratePiecewiseLinearCurveModel" \/ NumberControlPoints >= 3)

\* the dense point written after the sampling loop, at index S * segmentsToInterpolate
PointAfterLoop ==
  LET numberSegmentsToInterpolate == IF call.tubeLoop THEN NumberControlPoints ELSE NumberControlPoints - 1
  IN  GetPoint(curvePoints, call.segments * numberSegmentsToInterpolate)

\* C16 as stated: in the Linear (N >= 2), CardinalSpline and KochanekSpline (N >= 3)
\* samplers with S >= 1, the point written after the sampling loop is exactly the last
\* control point (index N-1), in the open and in the looped configuration.
C16_FinalPointIsLastControlPoint ==
  SampledByItsOwnLoop => PointAfterLoop = GetPoint(controlPoints, NumberControlPoints - 1)

\* C16 amended: the point written after the sampling loop is exactly the control point
\* the last sampled segment ends at: the last control point (index N-1) in the open
\* configuration, the first control point (index 0) in the looped configuration.
C16_FinalPointEndsLastSegment ==
  SampledByItsOwnLoop
    => PointAfterLoop = (IF call.tubeLoop
                         THEN GetPoint(controlPoints, 0)
                         ELSE GetPoint(controlPoints, NumberControlPoints - 1))

C16_Witness ==
  /\ SampledByItsOwnLoop
  /\ call.op = "GenerateCardinalSplineCurveModel" /\ call.deviation = ROne
  /\ call.tubeLoop /\ call.segments = 2 /\ NumberControlPoints = 3
  /\ GetPoint(controlPoints, 0) # GetPoint(controlPoints, 2)
  /\ GetPoint(controlPoints, 0) # GetPoint(controlPoints, 1)
  /\ GetPoint(curvePoints, 6) = GetPoint(controlPoints, 0)

\* the parameter array the fit of the call uses: the one passed in, or the index parameters
FitParameters ==
  IF call.inputPointParameters = NullArray
  THEN [k \in 1..NumberControlPoints |-> Rat(k - 1, NumberControlPoints - 1)]
  ELSE call.inputPointParameters

\* min(order + 1, D): order the requested order, 6 if above 6; D the number of distinct parameters
ExpectedCoefficients ==
  LET order == IF call.polynomialOrder > 6 THEN 6 ELSE call.polynomialOrder
      D == Cardinality({FitParameters[k] : k \in DOMAIN FitParameters})
  IN  IF order + 1 < D THEN order + 1 ELSE D

\* A[p][c] = parameter[p]^c, with ExpectedCoefficients columns
ExpectedDesignMatrix ==
  [p \in 1..NumberControlPoints |->
     [c \in 1..ExpectedCoefficients |-> RPow(FitParameters[p], c - 1)]]

\* C17: in GeneratePolynomialCurveModel with N >= 3, the number of coefficients fitted per
\* axis is min(order+1, D), order being the requested order after the clamp and D the number
\* of distinct values of the parameter array; the design matrix has that many columns with
\* A[p][c] = parameter[p]^c; and the dense curve has M = (N-1)*S + 1 samples, sample p being
\* the fitted polynomial at t = p/(M-1).
C17_FitDimensions ==
  PolynomialFitted
    => LET M == (NumberControlPoints - 1) * call.segments + 1
           coefficients == SolveLeastSquares(NumberControlPoints, ExpectedDesignMatrix,
                                             ExpectedCoefficients, DependentMatrix(controlPoints), 3)
       IN  /\ NumPolynomialCoefficients(call.polynomialOrder, FitParameters) = ExpectedCoefficients
           /\ IndependentMatrix(NumberControlPoints, ExpectedCoefficients, FitParameters) = ExpectedDesignMatrix
           /\ \A p \in 1..NumberControlPoints : Len(ExpectedDesignMatrix[p]) = ExpectedCoefficients
           /\ Len(curvePoints) = M
           /\ \A p \in 0..(M - 1) : \A d \in 1..3 :
                GetPoint(curvePoints, p)[d]
                  = RSum([c \in 1..ExpectedCoefficients |->
                            RMul(coefficients[c][d], RPow(Rat(p, M - 1), c - 1))],
                         ExpectedCoefficients)

C17_Witness ==
  /\ PolynomialFitted
  /\ NumberControlPoints = 3 /\ call.segments = 2
  /\ call.polynomialOrder = 2
  /\ call.inputPointParameters = <<RZero, RZero, ROne>>
  /\ ExpectedCoefficients = 2
  /\ Len(curvePoints) = 5
  /\ curvePoints[1] # curvePoints[5]

\* the Linear sampler sampled N >= 2 control points as an open curve
OpenLinearCurve ==
  /\ SamplerRan /\ call.op = "GeneratePiecewiseLinearCurveModel"
  /\ ~call.tubeLoop /\ call.segments >= 1
  /\ NumberControlPoints >= 2

\* C18: the open Linear sampler on N >= 2 control points writes
\* dense[s*S + i] = (1 - i/S)*control[s] + (i/S)*control[s+1] for every segment s in [0, N-1)
\* and sub-step i in [0, S), so dense[s*S] = control[s]; with S = 1 the dense sequence is
\* the N input points in order, and with tubeRadius = 0 the output mesh is then one
\* polyline cell of N points.
C18_OpenLinearSamples ==
  OpenLinearCurve
    => LET S == call.segments
           N == NumberControlPoints
       IN  /\ \A seg \in 0..(N - 2) : \A i \in 0..(S - 1) : \A d \in 1..3 :
                GetPoint(curvePoints, seg * S + i)[d]
                  = RAdd(RMul(RSub(ROne, Rat(i, S)), GetPoint(controlPoints, seg)[d]),
                         RMul(Rat(i, S), GetPoint(controlPoints, seg + 1)[d]))
           /\ \A seg \in 0..(N - 2) : GetPoint(curvePoints, seg * S) = GetPoint(controlPoints, seg)
           /\ S = 1 => curvePoints = controlPoints
           /\ (S = 1 /\ call.tubeRadius = 0)
                => /\ outputTubePolyData.kind = "line"
                   /\ outputTubePolyData.points = controlPoints
                   /\ Len(outputTubePolyData.lines) = 1
                   /\ outputTubePolyData.lines[1] = [k \in 1..N |-> k - 1]

C18_Witness ==
  /\ OpenLinearCurve
  /\ call.segments = 1 /\ call.tubeRadius = 0
  /\ controlPoints = <<PointOf(1, 1, 1), PointOf(4, 1, 1), PointOf(4, 1, 5)>>
  /\ curvePoints = controlPoints
  /\ outputTubePolyData.lines = << <<0, 1, 2>> >>

----------------------------------------------------------------------------
(* Properties of point parameterization (specification SpecParameters) *)

ParameterizerRuns(op) == call'.op = op /\ controlPoints # NullPoints /\ pointParameters # NullArray
ParameterizerRan(op) == call.op = op /\ controlPoints # NullPoints /\ pointParameters # NullArray

StrictlyIncreasing(array) ==
  \A i, j \in DOMAIN array : i < j => RLess(array[i], array[j])

\* C6: ComputePointParametersFromIndices on N >= 2 points leaves exactly N parameters,
\* parameter[i] = i/(N-1) (so 0 first, 1 last, strictly increasing), also when the array
\* had contents; on N < 2 points it warns and leaves the array as it was.
C6_IndexParameters ==
  [][ParameterizerRuns("ComputePointParametersFromIndices")
       => IF NumberControlPoints >= 2
          THEN /\ Len(pointParameters') = NumberControlPoints
               /\ \A i \in 0..(NumberControlPoints - 1) :
                    RMul(GetValue(pointParameters', i), RInt(NumberControlPoints - 1)) = RInt(i)
               /\ GetValue(pointParameters', 0) = RZero
               /\ GetValue(pointParameters', NumberControlPoints - 1) = ROne
               /\ StrictlyIncreasing(pointParameters')
          ELSE /\ pointParameters' = pointParameters
               /\ warnings' = <<"Not enough points to compute polynomial parameters.">>]_vars

C6_Witness ==
  /\ ParameterizerRan("ComputePointParametersFromIndices")
  /\ NumberControlPoints = 4
  /\ pointParameters = <<RZero, Rat(1, 3), Rat(2, 3), ROne>>
  /\ warnings = <<"pointParameters already has contents. Clearing.">>

IndexParametersOf(n) == [k \in 1..n |-> Rat(k - 1, n - 1)]

\* C7 as stated: ComputePointParametersFromMinimumSpanningTree on N >= 2 points along a
\* line at unit spacing in index order assigns parameter[i] = i/(N-1) to every point i,
\* the array ComputePointParametersFromIndices computes.
C7_UnitLineAsIndices ==
  (/\ ParameterizerRan("ComputePointParametersFromMinimumSpanningTree")
   /\ NumberControlPoints >= 2
   /\ controlPoints = UnitLine(NumberControlPoints))
    => pointParameters = IndexParametersOf(NumberControlPoints)

AllPointsCoincide == \A i, j \in DOMAIN controlPoints : controlPoints[i] = controlPoints[j]

DegenerateInputWarning == <<"Minimum spanning tree path has distance zero. No parameters will be assigned.">>

\* C8 as stated: ComputePointParametersFromMinimumSpanningTree on N >= 2 points fails with
\* DegenerateInput exactly when all input points coincide; with two distinct points it
\* succeeds and assigns one parameter per point.
C8_DegenerateIffAllCoincide ==
  (ParameterizerRan("ComputePointParametersFromMinimumSpanningTree") /\ NumberControlPoints >= 2)
    => IF AllPointsCoincide
       THEN warnings = DegenerateInputWarning
       ELSE warnings # DegenerateInputWarning /\ Len(pointParameters) = NumberControlPoints

PairwiseDistinct(seq) == \A i, j \in DOMAIN seq : i # j => seq[i] # seq[j]

\* the call succeeded on pairwise distinct points
TreeSucceededOnDistinctPoints ==
  /\ ParameterizerRan("ComputePointParametersFromMinimumSpanningTree")
  /\ NumberControlPoints >= 2
  /\ PairwiseDistinct(controlPoints)
  /\ warnings # DegenerateInputWarning

\* C9 as stated: after a successful ComputePointParametersFromMinimumSpanningTree on pairwise
\* distinct points, the N assigned parameters are pairwise distinct.
C9_DistinctParameters ==
  TreeSucceededOnDistinctPoints => PairwiseDistinct(pointParameters)

\* the vertices of the trunk path of the control points
TrunkVertices ==
  LET graph == Graph(controlPoints)
      farthest == FarthestPair(graph, NumberControlPoints, 0, <<0, 0, 0>>)
      pathIndices == TrunkPath(PrimParent(graph, NumberControlPoints, farthest[2]), farthest[3], <<>>)
  IN  {pathIndices[j] : j \in DOMAIN pathIndices}

\* C9 amended: after a successful ComputePointParametersFromMinimumSpanningTree on pairwise
\* distinct points, the parameters of the points on the trunk path are pairwise distinct; a
\* point off the trunk path has the parameter of a trunk point.
C9_DistinctTrunkParameters ==
  TreeSucceededOnDistinctPoints
    => /\ \A u, v \in TrunkVertices :
            u # v => GetValue(pointParameters, u) # GetValue(pointParameters, v)
       /\ \A u \in 0..(NumberControlPoints - 1) :
            \E v \in TrunkVertices : GetValue(pointParameters, u) = GetValue(pointParameters, v)

C9_Witness ==
  /\ TreeSucceededOnDistinctPoints
  /\ NumberControlPoints = 4
  /\ Cardinality(TrunkVertices) = 3
  /\ ~PairwiseDistinct(pointParameters)

\* the call of ComputePointParametersFromMinimumSpanningTree on N >= 2 points succeeded
TreeSucceeded ==
  /\ ParameterizerRan("ComputePointParametersFromMinimumSpanningTree")
  /\ NumberControlPoints >= 2
  /\ warnings # DegenerateInputWarning

TreeGraph == Graph(controlPoints)
TreeFarthest == FarthestPair(TreeGraph, NumberControlPoints, 0, <<0, 0, 0>>)
TreeStartIndex == TreeFarthest[2]
TreeEndIndex == TreeFarthest[3]
TreeParent == PrimParent(TreeGraph, NumberControlPoints, TreeStartIndex)

\* the length of the tree edges from vertex v up to the root
RECURSIVE DistanceFromStart(_, _, _)
DistanceFromStart(graph, parent, v) ==
  IF parent[v] = -1 THEN 0 ELSE graph[v][parent[v]] + DistanceFromStart(graph, parent, parent[v])

\* C14 as stated: on success, ComputePointParametersFromMinimumSpanningTree gives every
\* vertex on the trunk path the parameter (length of the tree edges along the trunk from
\* start to that vertex) / (length of all tree edges along the trunk); start gets 0 and
\* end gets 1, for any ordering of the input points.
C14_TrunkParameters ==
  TreeSucceeded
    => /\ \A v \in TrunkVertices :
            GetValue(pointParameters, v)
              = Rat(DistanceFromStart(TreeGraph, TreeParent, v),
                    DistanceFromStart(TreeGraph, TreeParent, TreeEndIndex))
       /\ GetValue(pointParameters, TreeStartIndex) = RZero
       /\ GetValue(pointParameters, TreeEndIndex) = ROne

\* the first trunk vertex met when walking the parent chain upward from vertex u
RECURSIVE FirstTrunkVertexAbove(_)
FirstTrunkVertexAbove(u) ==
  IF u \in TrunkVertices THEN u ELSE FirstTrunkVertexAbove(TreeParent[u])

\* C15: on success, ComputePointParametersFromMinimumSpanningTree gives every vertex that is
\* not on the trunk path exactly the parameter of the first trunk vertex met when walking
\* its parent chain upward, and the array has exactly N entries, each in [0,1].
C15_OffTrunkInherits ==
  TreeSucceeded
    => /\ Len(pointParameters) = NumberControlPoints
       /\ \A k \in DOMAIN pointParameters :
            ~RLess(pointParameters[k], RZero) /\ ~RLess(ROne, pointParameters[k])
       /\ \A u \in (0..(NumberControlPoints - 1)) \ TrunkVertices :
            GetValue(pointParameters, u) = GetValue(pointParameters, FirstTrunkVertexAbove(u))

C15_Witness ==
  /\ TreeSucceeded
  /\ NumberControlPoints = 4
  /\ \E u \in (0..3) \ TrunkVertices :
       /\ FirstTrunkVertexAbove(u) \notin {TreeStartIndex, TreeEndIndex}
       /\ GetValue(pointParameters, u) = GetValue(pointParameters, FirstTrunkVertexAbove(u))
       /\ GetValue(pointParameters, u) \notin {RZero, ROne}

TreeVertices == 0..(NumberControlPoints - 1)

\* walking the parents from vertex v reaches the root in at most `steps` steps
RECURSIVE ReachesStartWithin(_, _, _)
ReachesStartWithin(parent, v, steps) ==
  IF parent[v] = -1 THEN TRUE
  ELSE IF steps = 0 \/ parent[v] \notin DOMAIN parent THEN FALSE
  ELSE ReachesStartWithin(parent, parent[v], steps - 1)

\* walking the parents from an off-trunk vertex v reaches a trunk vertex in at most `steps` steps
RECURSIVE ReachesTrunkWithin(_, _, _)
ReachesTrunkWithin(parent, v, steps) ==
  IF v \in TrunkVertices THEN TRUE
  ELSE IF steps = 0 \/ parent[v] \notin DOMAIN parent THEN FALSE
  ELSE ReachesTrunkWithin(parent, parent[v], steps - 1)

\* the vertices from v up to the root
RECURSIVE Ancestors(_, _)
Ancestors(parent, v) == IF v = -1 THEN {} ELSE {v} \cup Ancestors(parent, parent[v])

\* the longest tree edge on the way from v up to its ancestor a
RECURSIVE LongestEdgeUpTo(_, _, _, _)
LongestEdgeUpTo(graph, parent, v, a) ==
  IF v = a THEN 0
  ELSE LET above == LongestEdgeUpTo(graph, parent, parent[v], a)
       IN  IF graph[v][parent[v]] > above THEN graph[v][parent[v]] ELSE above

\* the longest tree edge on the tree path between u and v
LongestEdgeBetween(graph, parent, u, v) ==
  LET longest(a) == IF LongestEdgeUpTo(graph, parent, u, a) > LongestEdgeUpTo(graph, parent, v, a)
                    THEN LongestEdgeUpTo(graph, parent, u, a)
                    ELSE LongestEdgeUpTo(graph, parent, v, a)
      common == Ancestors(parent, u) \cap Ancestors(parent, v)
  IN  CHOOSE m \in {longest(a) : a \in common} : \A a \in common : m <= longest(a)

\* a spanning tree has minimum total weight exactly when no edge outside it is shorter than
\* the longest tree edge on the tree path between its ends
MinimumWeight(graph, parent) ==
  \A u, v \in DOMAIN parent : graph[u][v] >= LongestEdgeBetween(graph, parent, u, v)

\* C19: in ComputePointParametersFromMinimumSpanningTree with N >= 2, (start, end) is a pair
\* of points at maximum distance; after Prim's loop parent[start] = -1, every other vertex has
\* another vertex as parent, the parent pointers form a spanning tree rooted at start of
\* minimum total weight, and so the walk from end and the walk from every off-trunk vertex
\* end (at start, at a trunk vertex) within N-1 steps; on success one parameter per point
\* is assigned.
C19_PrimTreeAndWalks ==
  (ParameterizerRan("ComputePointParametersFromMinimumSpanningTree") /\ NumberControlPoints >= 2)
    => /\ \A u, v \in TreeVertices : TreeGraph[u][v] <= TreeGraph[TreeStartIndex][TreeEndIndex]
       /\ TreeParent[TreeStartIndex] = -1
       /\ \A v \in TreeVertices \ {TreeStartIndex} : TreeParent[v] \in TreeVertices \ {v}
       /\ \A v \in TreeVertices : ReachesStartWithin(TreeParent, v, NumberControlPoints - 1)
       /\ MinimumWeight(TreeGraph, TreeParent)
       /\ TreeStartIndex \in TrunkVertices /\ TreeEndIndex \in TrunkVertices
       /\ \A v \in TreeVertices : ReachesTrunkWithin(TreeParent, v, NumberControlPoints - 1)
       /\ TreeSucceeded => Len(pointParameters) = NumberControlPoints

C19_Witness ==
  /\ TreeSucceeded
  /\ NumberControlPoints = 4
  /\ PairwiseDistinct(controlPoints)
  /\ \E v \in TreeVertices : TreeParent[v] \notin {-1, TreeStartIndex}
  /\ \E v \in TreeVertices : v \notin TrunkVertices
  /\ Len(pointParameters) = 4

----------------------------------------------------------------------------
(* Properties of every function (specification SpecAll) *)

ParameterizerOps ==
  {"ComputePointParametersFromIndices", "ComputePointParametersFromMinimumSpanningTree"}

NullWarnings ==
  {<<"Points to connect is null. No model generated.">>,
   <<"Output tube poly data is null. No model generated.">>,
   <<"Input point for sphere generation is null. No model generated.">>,
   <<"Output sphere poly data is null. No model generated.">>,
   <<"Control points are null. No model generated.">>,
   <<"Input points are null. No model generated.">>,
   <<"Input control points are null. Returning.">>,
   <<"Output control point parameters are null. Returning.">>,
   <<"Input points are null. Returning">>,
   <<"Output point parameters are null. Returning">>}

\* a function is called with one of its required geometry arguments null
NullArgumentCall ==
  \/ /\ call'.op \in SamplerOps \cup {"GetTubePolyDataFromPoints"}
     /\ (controlPoints = NullPoints \/ outputTubePolyData = NullPolyData)
  \/ /\ call'.op = "GenerateSphereModel"
     /\ (call'.point = NullPoints \/ outputTubePolyData = NullPolyData)
  \/ /\ call'.op \in ParameterizerOps
     /\ (controlPoints = NullPoints \/ pointParameters = NullArray)

\* C12: when a required geometry argument is null (control points or output mesh for the
\* four samplers and GetTubePolyDataFromPoints; point or output for GenerateSphereModel;
\* points or parameter array for both parameterizers), the call returns after one null
\* warning, hands no points to the mesh builder, and leaves the output mesh and the
\* parameter array exactly as they were before the call.
C12_NullArgumentLeavesOutputs ==
  [][NullArgumentCall
       => /\ outputTubePolyData' = outputTubePolyData
          /\ pointParameters' = pointParameters
          /\ curvePoints' = <<>>
          /\ warnings' \in NullWarnings]_vars

C12_Witness ==
  /\ call.op = "GetTubePolyDataFromPoints"
  /\ controlPoints = NullPoints
  /\ outputTubePolyData = StalePolyData
  /\ pointParameters = <<RZero, RZero, ROne>>
  /\ warnings = <<"Points to connect is null. No model generated.">>

====
